---- MODULE Spec2Model ----
(***************************************************************************)
(* Placement and ledger engine of rcloneUnion (modular entry point         *)
(* main.py with DatabaseManager, TransferManager, FileManager,             *)
(* DriveManager, RcloneManager).                                           *)
(*                                                                         *)
(* Strings that the code inspects character by character (paths, account   *)
(* ids) are sequences of one-character strings; "" is <<>>.  A Python dict  *)
(* is a sequence of entries in insertion order.  An optional value (None    *)
(* or a value) is the empty sequence or a one-element sequence.             *)
(***************************************************************************)
EXTENDS Integers, Sequences, FiniteSets, TLC

\* --------------------------------------------------------------- bounds
\* Longest listing (remote ls output or local walk) of one transfer run.
MaxFiles == 2

\* Stand-in, in coarse units, for int(14.95 * 1024**3) bytes, the
\* remaining_space a new account starts with.
Capacity == 2

\* File sizes the listers report: small, a whole account, and too large for
\* any account.
Sizes == {1, Capacity, Capacity + 1}

\* --------------------------------------------------------------- strings
P_a == <<"a">>
P_b == <<"b">>
P_s == <<"s">>
P_s_b_dot_c == <<"s", "/", "b", ".", "c">>
P_b_dot_c == <<"b", ".", "c">>
P_c == <<"c">>
P_b_c == <<"b", "/", "c">>
P_a_b == <<"a", "/", "b">>
P_a_b_dot_c == <<"a", "/", "b", ".", "c">>
P_a_b_c == <<"a", "/", "b", "/", "c">>
P_dot == <<".">>
P_empty == <<>>

\* str.startswith
StartsWith(s, p) == Len(p) <= Len(s) /\ SubSeq(s, 1, Len(p)) = p

\* os.path.join of two components (posix)
Join(a, b) ==
    IF b # <<>> /\ b[1] = "/" THEN b
    ELSE IF a = <<>> \/ a[Len(a)] = "/" THEN a \o b
    ELSE a \o <<"/">> \o b

\* the sequences over S of length at most n
RECURSIVE SeqsUpTo(_, _)
SeqsUpTo(S, n) ==
    IF n = 0 THEN {<<>>}
    ELSE LET shorter == SeqsUpTo(S, n - 1)
         IN  shorter \cup {Append(q, x) : q \in shorter, x \in S}

Range(q) == {q[k] : k \in 1..Len(q)}
NoRepeat(q) == \A k, l \in 1..Len(q) : q[k] = q[l] => k = l

RECURSIVE SumSizes(_)
SumSizes(files) ==
    IF files = <<>> THEN 0 ELSE files[1].size + SumSizes(Tail(files))

\* --------------------------------------------------------------- ledger
\* db["accounts"]: a sequence, in dict order, of
\*   [id, used_space, remaining_space, files], files a sequence of [path, size].
EmptyDb == <<>>

AccountIds(db) == {db[k].id : k \in 1..Len(db)}
AccountIndex(db, account_id) == CHOOSE k \in 1..Len(db) : db[k].id = account_id
Account(db, account_id) == db[AccountIndex(db, account_id)]
FilePaths(files) == {files[k].path : k \in 1..Len(files)}
AllPaths(db) == UNION {FilePaths(db[k].files) : k \in 1..Len(db)}

\* files[file_path] = {"size": file_size} on a dict: an existing key keeps its
\* position and gets the new value, a new key goes to the end.
DictPut(files, file_path, file_size) ==
    IF file_path \in FilePaths(files)
    THEN [k \in 1..Len(files) |->
            IF files[k].path = file_path
            THEN [path |-> file_path, size |-> file_size] ELSE files[k]]
    ELSE Append(files, [path |-> file_path, size |-> file_size])

\* del files[file_path]
DictDel(files, file_path) == SelectSeq(files, LAMBDA e : e.path # file_path)

\* The credential files of the accounts folder, as os.listdir returns them.
\* At first the folder holds one or two of them; a further one comes later.
JsonExt == ".json"
SaFileNames == {<<"a", JsonExt>>, <<"b", JsonExt>>, <<JsonExt>>}
Listings == {q \in SeqsUpTo(SaFileNames, Cardinality(SaFileNames) - 1) :
                NoRepeat(q) /\ q # <<>>}

\* sa_file.replace(".json", "")
AccountIdOf(sa_file) == SelectSeq(sa_file, LAMBDA t : t # JsonExt)

\* Variant: every credential file gets a fresh account, also when the ledger
\* has one under that id.
RECURSIVE initialize_database_ResetsPresent(_, _)
initialize_database_ResetsPresent(db, sa_files) ==
    IF sa_files = <<>> THEN db
    ELSE LET account_id == AccountIdOf(sa_files[1])
             fresh == [id |-> account_id, used_space |-> 0,
                       remaining_space |-> Capacity, files |-> <<>>]
         IN  initialize_database_ResetsPresent(
                IF account_id \in AccountIds(db)
                THEN [k \in 1..Len(db) |->
                        IF db[k].id = account_id THEN fresh ELSE db[k]]
                ELSE Append(db, fresh),
                Tail(sa_files))

RECURSIVE initialize_database(_, _)
initialize_database(db, sa_files) ==
    IF sa_files = <<>> THEN db
    ELSE LET account_id == AccountIdOf(sa_files[1])
             next == IF account_id \notin AccountIds(db)
                     THEN Append(db, [id |-> account_id,
                                      used_space |-> 0,
                                      remaining_space |-> Capacity,
                                      files |-> <<>>])
                     ELSE db
         IN  initialize_database(next, Tail(sa_files))

JsonFiles(listing) ==
    SelectSeq(listing, LAMBDA f : f # <<>> /\ f[Len(f)] = JsonExt)

\* Variant: the placement is recorded but remaining_space is left as it was.
update_account_usage_KeepsRemaining(db, account_id, file_size, file_path) ==
    IF account_id \notin AccountIds(db) THEN db
    ELSE [k \in 1..Len(db) |->
            IF db[k].id = account_id
            THEN [id |-> db[k].id,
                  used_space |-> db[k].used_space + file_size,
                  remaining_space |-> db[k].remaining_space,
                  files |-> DictPut(db[k].files, file_path, file_size)]
            ELSE db[k]]

\* Variant: the file is recorded on the first account of the ledger.
update_account_usage_FirstAccount(db, account_id, file_size, file_path) ==
    IF account_id \notin AccountIds(db) THEN db
    ELSE [k \in 1..Len(db) |->
            IF k = 1
            THEN [id |-> db[k].id,
                  used_space |-> db[k].used_space + file_size,
                  remaining_space |-> db[k].remaining_space - file_size,
                  files |-> DictPut(db[k].files, file_path, file_size)]
            ELSE db[k]]

\* Variant: an account that is not in the ledger is created for the file.
update_account_usage_CreatesAccount(db, account_id, file_size, file_path) ==
    IF account_id \notin AccountIds(db)
    THEN Append(db, [id |-> account_id,
                     used_space |-> file_size,
                     remaining_space |-> Capacity - file_size,
                     files |-> <<[path |-> file_path, size |-> file_size]>>])
    ELSE [k \in 1..Len(db) |->
            IF db[k].id = account_id
            THEN [id |-> db[k].id,
                  used_space |-> db[k].used_space + file_size,
                  remaining_space |-> db[k].remaining_space - file_size,
                  files |-> DictPut(db[k].files, file_path, file_size)]
            ELSE db[k]]

update_account_usage(db, account_id, file_size, file_path) ==
    IF account_id \notin AccountIds(db) THEN db
    ELSE [k \in 1..Len(db) |->
            IF db[k].id = account_id
            THEN [id |-> db[k].id,
                  used_space |-> db[k].used_space + file_size,
                  remaining_space |-> db[k].remaining_space - file_size,
                  files |-> DictPut(db[k].files, file_path, file_size)]
            ELSE db[k]]

\* Variant: least used first (the sort without reverse=True).
find_suitable_account_LeastUsed(db, file_size) ==
    LET suitable_accounts ==
            SelectSeq(db, LAMBDA acc : acc.remaining_space >= file_size)
        n == Len(suitable_accounts)
        first == CHOOSE k \in 1..n :
                    /\ \A l \in 1..n :
                        suitable_accounts[l].used_space
                            >= suitable_accounts[k].used_space
                    /\ \A l \in 1..(k - 1) :
                        suitable_accounts[l].used_space
                            > suitable_accounts[k].used_space
    IN  IF n = 0 THEN <<>> ELSE <<suitable_accounts[first].id>>

\* Variant: the fullest account, whether or not the file fits.
find_suitable_account_NoRoomCheck(db, file_size) ==
    LET suitable_accounts == db
        n == Len(suitable_accounts)
        first == CHOOSE k \in 1..n :
                    /\ \A l \in 1..n :
                        suitable_accounts[l].used_space
                            <= suitable_accounts[k].used_space
                    /\ \A l \in 1..(k - 1) :
                        suitable_accounts[l].used_space
                            < suitable_accounts[k].used_space
    IN  IF n = 0 THEN <<>> ELSE <<suitable_accounts[first].id>>

\* Variant: among the accounts equally full, the one with the smallest id
\* (the order of the strings "", "a", "b").
find_suitable_account_SmallestId(db, file_size) ==
    LET suitable_accounts ==
            SelectSeq(db, LAMBDA acc : acc.remaining_space >= file_size)
        n == Len(suitable_accounts)
        rank(id) == IF id = <<>> THEN 0 ELSE IF id = <<"a">> THEN 1 ELSE 2
        first == CHOOSE k \in 1..n :
                    /\ \A l \in 1..n :
                        suitable_accounts[l].used_space
                            <= suitable_accounts[k].used_space
                    /\ \A l \in 1..n :
                        suitable_accounts[l].used_space
                            = suitable_accounts[k].used_space
                        => rank(suitable_accounts[k].id)
                            <= rank(suitable_accounts[l].id)
    IN  IF n = 0 THEN <<>> ELSE <<suitable_accounts[first].id>>

\* Variant: an account is suitable as soon as it has any space left.
find_suitable_account_AnyRoom(db, file_size) ==
    LET suitable_accounts ==
            SelectSeq(db, LAMBDA acc : acc.remaining_space > 0)
        n == Len(suitable_accounts)
        first == CHOOSE k \in 1..n :
                    /\ \A l \in 1..n :
                        suitable_accounts[l].used_space
                            <= suitable_accounts[k].used_space
                    /\ \A l \in 1..(k - 1) :
                        suitable_accounts[l].used_space
                            < suitable_accounts[k].used_space
    IN  IF n = 0 THEN <<>> ELSE <<suitable_accounts[first].id>>

\* The turn the placement loop of process_transfer is at: the index, from
\* 1, of the descriptor in hand (the variable of the loop).
VARIABLE idx

\* Variant: among accounts equally full the choice goes by the turn of the
\* loop, the first of them on odd turns and the last on even turns.
find_suitable_account_ByTurn(db, file_size) ==
    LET suitable_accounts ==
            SelectSeq(db, LAMBDA acc : acc.remaining_space >= file_size)
        n == Len(suitable_accounts)
        first == CHOOSE k \in 1..n :
                    /\ \A l \in 1..n :
                        suitable_accounts[l].used_space
                            <= suitable_accounts[k].used_space
                    /\ \A l \in 1..(k - 1) :
                        suitable_accounts[l].used_space
                            < suitable_accounts[k].used_space
        last == CHOOSE k \in 1..n :
                    /\ \A l \in 1..n :
                        suitable_accounts[l].used_space
                            <= suitable_accounts[k].used_space
                    /\ \A l \in (k + 1)..n :
                        suitable_accounts[l].used_space
                            < suitable_accounts[k].used_space
    IN  IF n = 0 THEN <<>>
        ELSE IF idx % 2 = 1 THEN <<suitable_accounts[first].id>>
        ELSE <<suitable_accounts[last].id>>

\* The accounts with room, in dict order; then a stable sort by used_space,
\* largest first; then the head.  None is <<>>, an id x is <<x>>.
find_suitable_account(db, file_size) ==
    LET suitable_accounts ==
            SelectSeq(db, LAMBDA acc : acc.remaining_space >= file_size)
        n == Len(suitable_accounts)
        first == CHOOSE k \in 1..n :
                    /\ \A l \in 1..n :
                        suitable_accounts[l].used_space
                            <= suitable_accounts[k].used_space
                    /\ \A l \in 1..(k - 1) :
                        suitable_accounts[l].used_space
                            < suitable_accounts[k].used_space
    IN  IF n = 0 THEN <<>> ELSE <<suitable_accounts[first].id>>

\* Variant: only the last account of the ledger is searched.
file_already_processed_LastAccount(db, file_path) ==
    db # <<>> /\ file_path \in FilePaths(db[Len(db)].files)

\* Variant: only the first account of the ledger is searched.
file_already_processed_FirstAccount(db, file_path) ==
    db # <<>> /\ file_path \in FilePaths(db[1].files)

\* Variant: only accounts that still have room are searched.
file_already_processed_WithRoom(db, file_path) ==
    \E k \in 1..Len(db) :
        db[k].remaining_space > 0 /\ file_path \in FilePaths(db[k].files)

\* Variant: nothing is ever found.
file_already_processed_Never(db, file_path) == FALSE

file_already_processed(db, file_path) == file_path \in AllPaths(db)

\* Python truth value of find_suitable_account's result: None and "" are false.
Truthy(result) == result # <<>> /\ result[1] # <<>>

\* --------------------------------------------------------------- listers
\* os.path.basename
RECURSIVE Basename(_)
Basename(p) ==
    IF p = <<>> THEN <<>>
    ELSE IF p[Len(p)] = "/" THEN <<>>
    ELSE Basename(SubSeq(p, 1, Len(p) - 1)) \o <<p[Len(p)]>>

\* One line of the parsed "rclone ls" output.
LsItems == [filename : {P_b_dot_c, P_b_c}, size : Sizes]

\* DriveManager.scan_drive_directory on a listing that run_rclone_ls returned;
\* folder_name is get_folder_name's answer, used when upload_folder is set.
scan_drive_directory(ls_output, destination_base_path, upload_folder, folder_name) ==
    [k \in 1..Len(ls_output) |->
        LET file_path == ls_output[k].filename
            destination_path ==
                IF upload_folder THEN Join(destination_base_path, folder_name)
                ELSE destination_base_path
        IN  [filename |-> file_path,
             size |-> ls_output[k].size,
             relative_file_path |-> file_path,
             destination_path |-> destination_path,
             destination_path_with_name |-> Join(destination_path, file_path)]]

\* One file met by os.walk: the directory relative to source_dir ("." for the
\* top), the file's name and its size.
WalkItems == [relative_root : {P_dot, P_b}, file : {P_b_dot_c, P_c}, size : Sizes]

\* What os.walk can yield: no file twice and the top directory first; the
\* tree holds "b.c" at the top and "c" in the directory "b".
WalkOk(walk) ==
    /\ \A k, l \in 1..Len(walk) :
        (walk[k].relative_root = walk[l].relative_root
            /\ walk[k].file = walk[l].file) => k = l
    /\ \A k, l \in 1..Len(walk) :
        (walk[k].relative_root = P_b /\ walk[l].relative_root = P_dot) => l < k
    /\ \A k \in 1..Len(walk) :
        /\ walk[k].relative_root = P_dot => walk[k].file = P_b_dot_c
        /\ walk[k].relative_root = P_b => walk[k].file = P_c

\* FileManager.scan_local_directory
scan_local_directory(walk, source_dir, destination_base_path, upload_folder) ==
    [k \in 1..Len(walk) |->
        LET relative_root == walk[k].relative_root
            file == walk[k].file
            current_destination_path ==
                IF upload_folder
                THEN IF relative_root # P_dot
                     THEN Join(Join(destination_base_path, Basename(source_dir)),
                               relative_root)
                     ELSE Join(destination_base_path, Basename(source_dir))
                ELSE IF relative_root # P_dot
                     THEN Join(destination_base_path, relative_root)
                     ELSE destination_base_path
        IN  [filename |-> file,
             size |-> walk[k].size,
             relative_file_path |->
                IF relative_root # P_dot THEN Join(relative_root, file) ELSE file,
             destination_path |-> current_destination_path,
             destination_path_with_name |-> Join(current_destination_path, file)]]

\* FileManager.get_file_info
get_file_info(source, file_size, destination) ==
    [filename |-> Basename(source),
     size |-> file_size,
     relative_file_path |-> Basename(source),
     destination_path |-> destination,
     destination_path_with_name |->
        IF destination # <<>> THEN destination \o <<"/">> \o Basename(source)
        ELSE Basename(source)]

\* --------------------------------------------------------------- removal
\* Variant: a path matches when it is the prefix or lies below it as a
\* directory.
find_account_and_path_SegmentAware(db, path) ==
    LET hit(e) == e.path = path \/ StartsWith(e.path, path \o <<"/">>)
        matches(files) == SelectSeq(files, hit)
        holders == SelectSeq(db, LAMBDA acc : matches(acc.files) # <<>>)
    IN  [k \in 1..Len(holders) |->
            [account_id |-> holders[k].id, data |-> matches(holders[k].files)]]

\* Variant: an account that holds a match gives up all of its entries.
find_account_and_path_WholeAccount(db, path) ==
    LET matches(files) == SelectSeq(files, LAMBDA e : StartsWith(e.path, path))
        holders == SelectSeq(db, LAMBDA acc : matches(acc.files) # <<>>)
    IN  [k \in 1..Len(holders) |->
            [account_id |-> holders[k].id, data |-> holders[k].files]]

\* Variant: the matching entries of every account are listed under the first
\* account that holds one.
find_account_and_path_FirstHolder(db, path) ==
    LET matches(files) == SelectSeq(files, LAMBDA e : StartsWith(e.path, path))
        holders == SelectSeq(db, LAMBDA acc : matches(acc.files) # <<>>)
        all[k \in 0..Len(holders)] ==
            IF k = 0 THEN <<>> ELSE all[k - 1] \o matches(holders[k].files)
    IN  IF holders = <<>> THEN <<>>
        ELSE <<[account_id |-> holders[1].id, data |-> all[Len(holders)]]>>

\* TransferManager.find_account_and_path: a dict, in ledger order, from each
\* account that holds a match to that account's matching entries.
find_account_and_path(db, path) ==
    LET matches(files) == SelectSeq(files, LAMBDA e : StartsWith(e.path, path))
        holders == SelectSeq(db, LAMBDA acc : matches(acc.files) # <<>>)
    IN  [k \in 1..Len(holders) |->
            [account_id |-> holders[k].id, data |-> matches(holders[k].files)]]

\* Variant: the usage is given back but the entries stay in files.
RECURSIVE RemoveEntries_KeepsFiles(_, _)
RemoveEntries_KeepsFiles(acc, data) ==
    IF data = <<>> THEN acc
    ELSE RemoveEntries_KeepsFiles(
            [id |-> acc.id,
             used_space |-> acc.used_space - data[1].size,
             remaining_space |-> acc.remaining_space + data[1].size,
             files |-> acc.files],
            Tail(data))

\* Variant: the entries go and used_space is given back, remaining_space
\* is not.
RECURSIVE RemoveEntries_ForgetsRemaining(_, _)
RemoveEntries_ForgetsRemaining(acc, data) ==
    IF data = <<>> THEN acc
    ELSE RemoveEntries_ForgetsRemaining(
            [id |-> acc.id,
             used_space |-> acc.used_space - data[1].size,
             remaining_space |-> acc.remaining_space,
             files |-> DictDel(acc.files, data[1].path)],
            Tail(data))

\* The inner loop of remove_from_database on one account.
RECURSIVE RemoveEntries(_, _)
RemoveEntries(acc, data) ==
    IF data = <<>> THEN acc
    ELSE RemoveEntries(
            [id |-> acc.id,
             used_space |-> acc.used_space - data[1].size,
             remaining_space |-> acc.remaining_space + data[1].size,
             files |-> DictDel(acc.files, data[1].path)],
            Tail(data))

RECURSIVE remove_from_database(_, _)
remove_from_database(db, removal_map) ==
    IF removal_map = <<>> THEN db
    ELSE remove_from_database(
            [k \in 1..Len(db) |->
                IF db[k].id = removal_map[1].account_id
                THEN RemoveEntries(db[k], removal_map[1].data)
                ELSE db[k]],
            Tail(removal_map))

\* --------------------------------------------------------------- rclone
\* re.escape: a backslash before every character special to a regex.
RegexSpecial == {".", " ", "(", ")", "[", "]", "*", "+", "?", "\\"}
RECURSIVE re_escape(_)
re_escape(p) ==
    IF p = <<>> THEN <<>>
    ELSE (IF p[1] \in RegexSpecial THEN <<"\\", p[1]>> ELSE <<p[1]>>)
            \o re_escape(Tail(p))

\* RcloneManager.create_rclone_include_file: the lines written to
\* include_<account_id>.txt.
IncludeLines(file_paths) == [k \in 1..Len(file_paths) |-> re_escape(file_paths[k])]

\* RcloneManager.generate_rclone_command, the command's parts kept apart.
generate_rclone_command(account_id, include_file, destination_path, source_path, is_delete) ==
    IF is_delete
    THEN [op |-> "delete", remote |-> <<"g">> \o account_id,
          include_from |-> include_file, source |-> <<>>,
          destination |-> destination_path]
    ELSE [op |-> "copy", remote |-> <<"g">> \o account_id,
          include_from |-> include_file, source |-> source_path,
          destination |-> destination_path]

\* --------------------------------------------------------------- state
None == <<>>
Some(x) == <<x>>

VARIABLES
    accounts_folder,    \* os.listdir(ACCOUNTS_FOLDER)
    database_file,      \* drive_data.json: None when absent, else its text
    include_files,      \* rclone_include_files/: the files written, in order
    pc,                 \* where the running invocation of main() stands
    args,               \* the parsed command line
    db_before,          \* main's db_before
    db,                 \* main's db, the ledger the planners work on
    files_to_transfer,  \* process_transfer's list of descriptors
    account_files,      \* process_transfer's per-account grouping
    rclone_commands,    \* the commands returned to main
    outcomes,           \* what the placement loop did with each descriptor
    prev_run,           \* what the user goes on to do with the transfer that
                        \* just ended: repeat it, or remove the one file it
                        \* placed
    rerun,              \* this transfer repeats the previous one on the
                        \* ledger that one produced
    file_before,        \* drive_data.json as this invocation found it
    db_loaded,          \* what load_database returned to main, before
                        \* initialize_database
    db_backup,          \* database_backup/drive_data_backup_<now>.json, the
                        \* copy this invocation's save made
    saves,              \* calls of save_database by this invocation
    messages,           \* what the invocation has reported: the one running,
                        \* or the one that has just stopped before its end
    undone,             \* this removal takes back the single placement of
                        \* the previous run: the ledger before that run
    removal_map,        \* process_removal's removal_map: per account, the
                        \* matched entries
    run_backup          \* backups/<now>/, the directory this invocation's
                        \* create_backup wrote

vars == <<accounts_folder, database_file, include_files, pc, args, db_before,
          db, files_to_transfer, idx, account_files, rclone_commands,
          outcomes, prev_run, rerun, file_before, db_loaded, db_backup,
          saves, messages, undone, removal_map, run_backup>>

\* ---- the ledger file as JSON text
\* A JSON object is the sequence of its members, in the order written.
Member(key, value) == [key |-> key, value |-> value]
Get(object, key) ==
    object[CHOOSE k \in 1..Len(object) : object[k].key = key].value

\* Variant: accounts that hold no file are left out of the document.
json_dump_SkipsEmptyAccounts(ledger) ==
    LET file(e) == Member(e.path, <<Member("size", e.size)>>)
        account(acc) ==
            Member(acc.id,
                   <<Member("used_space", acc.used_space),
                     Member("remaining_space", acc.remaining_space),
                     Member("files",
                            [k \in 1..Len(acc.files) |-> file(acc.files[k])])>>)
        holders == SelectSeq(ledger, LAMBDA acc : acc.files # <<>>)
    IN  <<Member("accounts", [k \in 1..Len(holders) |-> account(holders[k])])>>

\* json.dump of {"accounts": {id: {"used_space", "remaining_space",
\* "files": {path: {"size"}}}}}: dicts are written in insertion order.
json_dump(ledger) ==
    LET file(e) == Member(e.path, <<Member("size", e.size)>>)
        account(acc) ==
            Member(acc.id,
                   <<Member("used_space", acc.used_space),
                     Member("remaining_space", acc.remaining_space),
                     Member("files",
                            [k \in 1..Len(acc.files) |-> file(acc.files[k])])>>)
    IN  <<Member("accounts", [k \in 1..Len(ledger) |-> account(ledger[k])])>>

\* json.load: the dicts come back keyed and ordered as the text has them; the
\* code reads them by key.
json_load(json) ==
    LET file(m) == [path |-> m.key, size |-> Get(m.value, "size")]
        account(m) ==
            [id |-> m.key,
             used_space |-> Get(m.value, "used_space"),
             remaining_space |-> Get(m.value, "remaining_space"),
             files |-> [k \in 1..Len(Get(m.value, "files")) |->
                            file(Get(m.value, "files")[k])]]
        accounts == Get(json, "accounts")
    IN  [k \in 1..Len(accounts) |-> account(accounts[k])]

\* The text of drive_data.json after a complete json.dump of the ledger.
Dump(ledger) == [complete |-> TRUE, json |-> json_dump(ledger)]

\* The text after open(..., "w") and before json.dump has finished: empty or
\* cut short, and no JSON document either way.
Truncated == [complete |-> FALSE, json |-> <<>>]

\* Variant: any failure to read the file gives the empty ledger.
load_database_EmptyOnAnyError(file) ==
    IF file = None \/ ~ file[1].complete
    THEN [raised |-> FALSE, db |-> EmptyDb]
    ELSE [raised |-> FALSE, db |-> json_load(file[1].json)]

\* Variant: FileNotFoundError is not caught.
load_database_RaisesWhenAbsent(file) ==
    IF file = None \/ ~ file[1].complete
    THEN [raised |-> TRUE, db |-> EmptyDb]
    ELSE [raised |-> FALSE, db |-> json_load(file[1].json)]

\* DatabaseManager.load_database: only FileNotFoundError is caught; what
\* json.load raises on a text that is no JSON document goes up to main.
load_database(file) ==
    IF file = None THEN [raised |-> FALSE, db |-> EmptyDb]
    ELSE IF ~ file[1].complete THEN [raised |-> TRUE, db |-> EmptyDb]
    ELSE [raised |-> FALSE, db |-> json_load(file[1].json)]

\* DatabaseManager.create_database_backup on the file as it stands.
create_database_backup(file) ==
    IF file = None
    THEN [backup |-> None, message |-> "no_backup_warning"]
    ELSE [backup |-> file, message |-> "backup_created"]

\* ---- command lines and the local filesystem
DriveSource == <<"i", "d", "=", "X">>
IdPrefix == <<"i", "d", "=">>
LocalDirs == {P_a}
LocalFiles == {P_s_b_dot_c}
InvalidSource == <<"z">>

NoArgs == [structure |-> None, remove |-> None, source |-> None,
           destination |-> None, upload_folder |-> FALSE]

RemovePrefixes == {<<>>, P_a_b, P_a_b_dot_c, P_a_b \o <<"/">>, P_a_b_c,
                   P_a_b_dot_c \o <<"/">>}

CommandLines ==
    {NoArgs}
    \cup {[NoArgs EXCEPT !.structure = Some(P_a)]}
    \cup {[NoArgs EXCEPT !.remove = Some(p)] : p \in RemovePrefixes}
    \cup {[NoArgs EXCEPT !.source = Some(s), !.destination = Some(P_a)] :
            s \in {DriveSource, P_s_b_dot_c, InvalidSource}}
    \cup {[NoArgs EXCEPT !.source = Some(P_a), !.destination = Some(<<>>),
                         !.upload_folder = TRUE]}

IsTransfer(a) ==
    a.structure = None /\ a.remove = None
        /\ a.source # None /\ a.destination # None

Init ==
    /\ accounts_folder \in Listings
    /\ database_file = None
    /\ include_files = <<>>
    /\ pc = "start"
    /\ args = NoArgs
    /\ db_before = EmptyDb
    /\ db = EmptyDb
    /\ files_to_transfer = <<>>
    /\ idx = 1
    /\ account_files = <<>>
    /\ rclone_commands = <<>>
    /\ outcomes = <<>>
    /\ prev_run = None
    /\ rerun = FALSE
    /\ file_before = None
    /\ db_loaded = EmptyDb
    /\ db_backup = None
    /\ saves = 0
    /\ messages = {}
    /\ undone = None
    /\ removal_map = <<>>
    /\ run_backup = None

\* The memory of a process that has exited.
ProcessGone ==
    /\ pc' = "start"
    /\ args' = NoArgs
    /\ db_before' = EmptyDb
    /\ db' = EmptyDb
    /\ files_to_transfer' = <<>>
    /\ idx' = 1
    /\ account_files' = <<>>
    /\ rclone_commands' = <<>>
    /\ outcomes' = <<>>
    /\ rerun' = FALSE
    /\ file_before' = None
    /\ db_loaded' = EmptyDb
    /\ db_backup' = None
    /\ saves' = 0
    /\ undone' = None
    /\ removal_map' = <<>>
    /\ run_backup' = None

\* The credential files that may be added to the accounts folder later on.
NewSaFiles == {<<"b", JsonExt>>}

\* A credential file is dropped into the accounts folder between two runs.
AddCredentialFile ==
    /\ pc = "start"
    /\ prev_run = None
    /\ \E sa_file \in NewSaFiles \ Range(accounts_folder) :
        accounts_folder' = Append(accounts_folder, sa_file)
    /\ UNCHANGED <<database_file, include_files, pc, args, db_before, db,
                   files_to_transfer, idx, account_files, rclone_commands,
                   outcomes, prev_run, rerun, file_before, db_loaded,
                   db_backup, saves, messages, undone, removal_map,
                   run_backup>>

\* main() up to its dispatch on the arguments, for the command line a: the
\* managers are built (BackupManager clears the include directory), the ledger
\* is loaded, the missing accounts are added, and db is a copy of db_before.
Prologue(a) ==
    /\ pc = "start"
    /\ ~ load_database(database_file).raised
    /\ prev_run # None =>
        a = (IF prev_run[1].next = "repeat" THEN prev_run[1].args
             ELSE [NoArgs EXCEPT !.remove = Some(prev_run[1].path)])
    /\ args' = a
    /\ file_before' = database_file
    /\ db_loaded' = load_database(database_file).db
    /\ db_before' = initialize_database(db_loaded', JsonFiles(accounts_folder))
    /\ idx' = 1
    /\ account_files' = <<>>
    /\ outcomes' = <<>>
    /\ prev_run' = None
    /\ db_backup' = None
    /\ saves' = 0
    /\ run_backup' = None
    /\ UNCHANGED <<accounts_folder, database_file>>

\* main() when load_database raises: the include directory has been cleared,
\* the traceback is printed and the process exits.
LoadFails ==
    /\ pc = "start"
    /\ load_database(database_file).raised
    /\ include_files' = <<>>
    /\ messages' = {"load_error"}
    /\ prev_run' = None
    /\ ProcessGone
    /\ UNCHANGED <<accounts_folder, database_file>>

\* A run that reaches no planner, or whose planner returns (db, []) at once.
NothingPlanned ==
    /\ db' = db_before'
    /\ include_files' = <<>>
    /\ rclone_commands' = <<>>
    /\ files_to_transfer' = <<>>
    /\ rerun' = FALSE
    /\ messages' = {}
    /\ undone' = None
    /\ removal_map' = <<>>

\* args.structure is not None: print_drive_structure only reads.
PrintStructure ==
    /\ pc = "start"
    /\ \E a \in CommandLines :
        /\ a.structure # None
        /\ Prologue(a)
        /\ NothingPlanned
        /\ pc' = "reload"

\* parser.error: the process exits with nothing done.
ParserError ==
    /\ pc = "start"
    /\ \E a \in CommandLines :
        /\ a.structure = None /\ a.remove = None /\ ~ IsTransfer(a)
        /\ Prologue(a)
        /\ NothingPlanned
        /\ pc' = "start"

\* ---- process_transfer: choosing the lister
\* The lister returned files: enter the placement loop.
Planning(files) ==
    /\ prev_run # None => files = prev_run[1].files
    /\ db' = db_before'
    /\ include_files' = <<>>
    /\ rclone_commands' = <<>>
    /\ files_to_transfer' = files
    /\ rerun' = (prev_run # None /\ prev_run[1].db = db_before')
    /\ messages' = {}
    /\ undone' = None
    /\ removal_map' = <<>>
    /\ pc' = "plan"

\* "return db, rclone_commands" before the placement loop.
EarlyReturn ==
    /\ NothingPlanned
    /\ pc' = "save"

\* What rclone ls may print for the remote folder.
LsOutputs == SeqsUpTo(LsItems, MaxFiles)

\* What os.walk may yield for a local directory.
Walks == {walk \in SeqsUpTo(WalkItems, MaxFiles) : WalkOk(walk)}

\* source "id=...": the remote lister answered.
ScanDrive ==
    /\ pc = "start"
    /\ \E a \in CommandLines :
        /\ IsTransfer(a)
        /\ StartsWith(a.source[1], IdPrefix)
        /\ Prologue(a)
        /\ \E ls_output \in LsOutputs :
            Planning(scan_drive_directory(ls_output, a.destination[1],
                                          a.upload_folder, P_a))

\* source "id=...": rclone ls failed, or the folder's name could not be
\* fetched; scan_drive_directory returns None.
ScanDriveFailed ==
    /\ pc = "start"
    /\ \E a \in CommandLines :
        /\ IsTransfer(a)
        /\ StartsWith(a.source[1], IdPrefix)
        /\ Prologue(a)
        /\ EarlyReturn

ScanLocalDirectory ==
    /\ pc = "start"
    /\ \E a \in CommandLines :
        /\ IsTransfer(a)
        /\ ~ StartsWith(a.source[1], IdPrefix)
        /\ a.source[1] \in LocalDirs
        /\ Prologue(a)
        /\ \E walk \in Walks :
            /\ Planning(scan_local_directory(walk, a.source[1],
                                             a.destination[1],
                                             a.upload_folder))

ScanFile ==
    /\ pc = "start"
    /\ \E a \in CommandLines :
        /\ IsTransfer(a)
        /\ ~ StartsWith(a.source[1], IdPrefix)
        /\ a.source[1] \notin LocalDirs
        /\ a.source[1] \in LocalFiles
        /\ Prologue(a)
        /\ \E file_size \in Sizes :
            Planning(<<get_file_info(a.source[1], file_size,
                                     a.destination[1])>>)

\* Variant: the path that is neither a directory nor a file is described as
\* a file all the same.
InvalidSourcePath_TakenAsFile ==
    /\ pc = "start"
    /\ \E a \in CommandLines :
        /\ IsTransfer(a)
        /\ ~ StartsWith(a.source[1], IdPrefix)
        /\ a.source[1] \notin LocalDirs
        /\ a.source[1] \notin LocalFiles
        /\ Prologue(a)
        /\ \E file_size \in Sizes :
            Planning(<<get_file_info(a.source[1], file_size,
                                     a.destination[1])>>)

InvalidSourcePath ==
    /\ pc = "start"
    /\ \E a \in CommandLines :
        /\ IsTransfer(a)
        /\ ~ StartsWith(a.source[1], IdPrefix)
        /\ a.source[1] \notin LocalDirs
        /\ a.source[1] \notin LocalFiles
        /\ Prologue(a)
        /\ EarlyReturn

\* Variant: every placed descriptor opens an entry of its own.
AddToAccountFiles_EntryPerFile(af, account_id, file_info) ==
    Append(af, [account_id |-> account_id,
                file_paths |-> <<file_info.relative_file_path>>,
                destination_paths |-> <<file_info.destination_path>>])

\* Variant: the descriptor's paths are put in front of the account's lists.
AddToAccountFiles_Prepends(af, account_id, file_info) ==
    IF \E k \in 1..Len(af) : af[k].account_id = account_id
    THEN [k \in 1..Len(af) |->
            IF af[k].account_id = account_id
            THEN [account_id |-> account_id,
                  file_paths |->
                    <<file_info.relative_file_path>> \o af[k].file_paths,
                  destination_paths |->
                    <<file_info.destination_path>> \o af[k].destination_paths]
            ELSE af[k]]
    ELSE Append(af, [account_id |-> account_id,
                     file_paths |-> <<file_info.relative_file_path>>,
                     destination_paths |-> <<file_info.destination_path>>])

\* ---- process_transfer: one turn of the placement loop
\* account_files[account_id] gets the descriptor's paths appended.
AddToAccountFiles(af, account_id, file_info) ==
    IF \E k \in 1..Len(af) : af[k].account_id = account_id
    THEN [k \in 1..Len(af) |->
            IF af[k].account_id = account_id
            THEN [account_id |-> account_id,
                  file_paths |->
                    Append(af[k].file_paths, file_info.relative_file_path),
                  destination_paths |->
                    Append(af[k].destination_paths, file_info.destination_path)]
            ELSE af[k]]
    ELSE Append(af, [account_id |-> account_id,
                     file_paths |-> <<file_info.relative_file_path>>,
                     destination_paths |-> <<file_info.destination_path>>])

ProcessFile ==
    /\ pc = "plan"
    /\ idx <= Len(files_to_transfer)
    /\ LET file_info == files_to_transfer[idx]
           account_id == find_suitable_account(db, file_info.size)
       IN  IF file_already_processed(db, file_info.destination_path_with_name)
           THEN /\ outcomes' = Append(outcomes, "skipped")
                /\ UNCHANGED <<db, account_files>>
           ELSE IF Truthy(account_id)
           THEN /\ account_files' =
                    AddToAccountFiles(account_files, account_id[1], file_info)
                /\ db' = update_account_usage(db, account_id[1], file_info.size,
                            file_info.destination_path_with_name)
                /\ outcomes' = Append(outcomes, "placed")
           ELSE /\ outcomes' = Append(outcomes, "unplaceable")
                /\ UNCHANGED <<db, account_files>>
    /\ idx' = idx + 1
    /\ UNCHANGED <<accounts_folder, database_file, include_files, pc, args,
                   db_before, files_to_transfer, rclone_commands, prev_run,
                   rerun, file_before, db_loaded, db_backup, saves, messages,
                   undone, removal_map, run_backup>>

\* ---- process_transfer: one include file and one copy command per account
TransferSource(source) ==
    IF ~ StartsWith(source, IdPrefix) THEN source
    ELSE <<"god,root_folder_">> \o source \o <<":">>

\* The loop over account_files, and "return db, rclone_commands".
CompileCommands ==
    /\ pc = "plan"
    /\ idx > Len(files_to_transfer)
    /\ include_files' = include_files \o
        [k \in 1..Len(account_files) |->
            [account_id |-> account_files[k].account_id,
             lines |-> IncludeLines(account_files[k].file_paths)]]
    /\ rclone_commands' = rclone_commands \o
        [k \in 1..Len(account_files) |->
            generate_rclone_command(account_files[k].account_id,
                account_files[k].account_id,
                account_files[k].destination_paths[1],
                TransferSource(args.source[1]), FALSE)]
    /\ pc' = "save"
    /\ UNCHANGED <<accounts_folder, args, db_before, db, files_to_transfer,
                   idx, account_files, outcomes, prev_run, rerun, file_before,
                   db_loaded, db_backup, saves, messages, undone,
                   removal_map, run_backup>>

\* Variant: process_transfer writes the ledger file itself before it returns.
CompileTransfer_Persists ==
    /\ CompileCommands
    /\ database_file' = Some(Dump(db))

CompileTransfer ==
    /\ CompileCommands
    /\ UNCHANGED database_file

\* ---- process_removal
\* Variant: an empty selection goes unreported and still yields a delete
\* command, on the first account.
process_removal_CommandAnyway(source, ledger) ==
    LET found == find_account_and_path(ledger, source)
        targets == IF found = <<>> /\ ledger # <<>>
                   THEN <<[account_id |-> ledger[1].id, data |-> <<>>]>>
                   ELSE found
    IN  [db |-> remove_from_database(ledger, found),
         removal_map |-> targets,
         include_files |->
            [k \in 1..Len(targets) |->
                [account_id |-> targets[k].account_id,
                 lines |-> IncludeLines(
                    [l \in 1..Len(targets[k].data) |->
                        targets[k].data[l].path])]],
         rclone_commands |->
            [k \in 1..Len(targets) |->
                generate_rclone_command(targets[k].account_id,
                    targets[k].account_id, source, P_dot, TRUE)],
         messages |-> {}]

\* TransferManager.process_removal: the ledger and the commands it returns,
\* the include files it writes and what it reports.
process_removal(source, ledger) ==
    LET found == find_account_and_path(ledger, source)
    IN  [db |-> remove_from_database(ledger, found),
         removal_map |-> found,
         include_files |->
            [k \in 1..Len(found) |->
                [account_id |-> found[k].account_id,
                 lines |-> IncludeLines(
                    [l \in 1..Len(found[k].data) |->
                        found[k].data[l].path])]],
         rclone_commands |->
            [k \in 1..Len(found) |->
                generate_rclone_command(found[k].account_id,
                    found[k].account_id, source, P_dot, TRUE)],
         messages |-> IF found = <<>> THEN {"nothing_to_remove"} ELSE {}]

\* Variant: an empty prefix is turned away as an invalid source, as by
\* "if source:", and nothing is removed.
ProcessRemoval_RejectsEmpty ==
    /\ pc = "start"
    /\ \E a \in CommandLines :
        /\ a.structure = None
        /\ a.remove # None
        /\ Prologue(a)
        /\ LET result == IF a.remove[1] = <<>>
                         THEN [db |-> db_before', removal_map |-> <<>>,
                               include_files |-> <<>>,
                               rclone_commands |-> <<>>,
                               messages |-> {"invalid_source"}]
                         ELSE process_removal(a.remove[1], db_before')
           IN  /\ db' = result.db
               /\ removal_map' = result.removal_map
               /\ include_files' = result.include_files
               /\ rclone_commands' = result.rclone_commands
               /\ messages' = result.messages
        /\ undone' = IF prev_run # None /\ prev_run[1].next = "undo"
                     THEN Some(prev_run[1].before) ELSE None
        /\ files_to_transfer' = <<>>
        /\ rerun' = FALSE
        /\ pc' = "save"

ProcessRemoval ==
    /\ pc = "start"
    /\ \E a \in CommandLines :
        /\ a.structure = None
        /\ a.remove # None
        /\ Prologue(a)
        /\ LET result == process_removal(a.remove[1], db_before')
           IN  /\ db' = result.db
               /\ removal_map' = result.removal_map
               /\ include_files' = result.include_files
               /\ rclone_commands' = result.rclone_commands
               /\ messages' = result.messages
        /\ undone' = IF prev_run # None /\ prev_run[1].next = "undo"
                     THEN Some(prev_run[1].before) ELSE None
        /\ files_to_transfer' = <<>>
        /\ rerun' = FALSE
        /\ pc' = "save"

\* ---- save_database
\* Up to and including create_database_backup: the placeholder document when
\* there is no file yet, then the copy of the file as it stands.
SaveBegin ==
    /\ pc = "save"
    /\ LET existing == IF database_file = None THEN Some(Dump(EmptyDb))
                       ELSE database_file
           copy == create_database_backup(existing)
       IN  /\ database_file' = existing
           /\ db_backup' = copy.backup
           /\ messages' = messages \cup {copy.message}
    /\ saves' = saves + 1
    /\ pc' = "open"
    /\ UNCHANGED <<accounts_folder, include_files, args, db_before, db,
                   files_to_transfer, idx, account_files, rclone_commands,
                   outcomes, prev_run, rerun, file_before, db_loaded, undone,
                   removal_map, run_backup>>

\* with open(self.database_file, "w") as f: json.dump(db, f, indent=4), run to
\* its end: the file is cut to nothing, written and closed.
SaveDatabase ==
    /\ pc = "open"
    /\ database_file' = Some(Dump(db))
    /\ pc' = "reload"
    /\ UNCHANGED <<accounts_folder, include_files, args, db_before, db,
                   files_to_transfer, idx, account_files, rclone_commands,
                   outcomes, prev_run, rerun, file_before, db_loaded,
                   db_backup, saves, messages, undone, removal_map,
                   run_backup>>

\* The same two lines when the process stops between open(..., "w") and the
\* end of json.dump: the file stays as the interrupted write left it.
SaveInterrupted ==
    /\ pc = "open"
    /\ database_file' = Some(Truncated)
    /\ messages' = messages \cup {"stopped_writing"}
    /\ prev_run' = None
    /\ ProcessGone
    /\ UNCHANGED <<accounts_folder, include_files>>

\* The process stops elsewhere before main() ends: an exception nobody
\* catches, or a kill. What is on disk stays as it is at that moment.
Crash ==
    /\ pc \in {"plan", "save", "open"}
    /\ messages' = messages \cup
            {IF pc = "plan" THEN "stopped_planning" ELSE "stopped_saving"}
    /\ prev_run' = None
    /\ ProcessGone
    /\ UNCHANGED <<accounts_folder, database_file, include_files>>

\* ---- the end of main()
\* BackupManager.create_backup: the files of the backup directory. The include
\* directory is zipped as it stands; the two ledgers are dumped as JSON.
create_backup(a, commands, before, after) ==
    [input_arguments |-> a,
     generated_commands |-> commands,
     include_files |-> include_files,
     database_before |-> json_dump(before),
     database_after |-> json_dump(after)]

\* Variant: db_before is the very object the planner worked on, so that the
\* backup's first snapshot shows the planner's changes.
Finish_AliasedBefore ==
    /\ pc = "reload"
    /\ LET db_after == load_database(database_file).db
       IN  IF rclone_commands # <<>>
           THEN /\ run_backup' =
                    Some(create_backup(args, rclone_commands, db, db_after))
                /\ messages' = messages \cup {"backup_created"}
           ELSE /\ run_backup' = None
                /\ messages' = messages \cup {"no_changes"}
    /\ pc' = "done"
    /\ UNCHANGED <<accounts_folder, database_file, include_files, args,
                   db_before, db, files_to_transfer, idx, account_files,
                   rclone_commands, outcomes, prev_run, rerun, file_before,
                   db_loaded, db_backup, saves, undone, removal_map>>

\* Variant: the backup is made whatever the command list holds.
Finish_AlwaysBacksUp ==
    /\ pc = "reload"
    /\ LET db_after == load_database(database_file).db
       IN  /\ run_backup' =
                Some(create_backup(args, rclone_commands, db_before,
                                   db_after))
           /\ messages' = messages \cup {"backup_created"}
    /\ pc' = "done"
    /\ UNCHANGED <<accounts_folder, database_file, include_files, args,
                   db_before, db, files_to_transfer, idx, account_files,
                   rclone_commands, outcomes, prev_run, rerun, file_before,
                   db_loaded, db_backup, saves, undone, removal_map>>

\* db_after = load_database(); then, when there are commands, the backup and
\* the commands printed, else "NO CHANGES!!!".
Finish ==
    /\ pc = "reload"
    /\ LET db_after == load_database(database_file).db
       IN  IF rclone_commands # <<>>
           THEN /\ run_backup' =
                    Some(create_backup(args, rclone_commands, db_before,
                                       db_after))
                /\ messages' = messages \cup {"backup_created"}
           ELSE /\ run_backup' = None
                /\ messages' = messages \cup {"no_changes"}
    /\ pc' = "done"
    /\ UNCHANGED <<accounts_folder, database_file, include_files, args,
                   db_before, db, files_to_transfer, idx, account_files,
                   rclone_commands, outcomes, prev_run, rerun, file_before,
                   db_loaded, db_backup, saves, undone, removal_map>>

\* The descriptors this run placed, by their path in the ledger.
PlacedPaths ==
    [k \in 1..Len(SelectSeq([j \in 1..Len(outcomes) |-> j],
                            LAMBDA j : outcomes[j] = "placed")) |->
        files_to_transfer[
            SelectSeq([j \in 1..Len(outcomes) |-> j],
                      LAMBDA j : outcomes[j] = "placed")[k]
        ].destination_path_with_name]

\* main() returns. The process is gone and its memory with it; the user may go
\* on to repeat a transfer that placed something, or to remove the one file it
\* placed.
Exit ==
    /\ pc = "done"
    /\ \E next \in {"any", "repeat", "undo"} :
        prev_run' =
            IF next = "repeat" /\ IsTransfer(args) /\ Len(PlacedPaths) > 0
            THEN Some([next |-> "repeat", args |-> args,
                       files |-> files_to_transfer, db |-> db,
                       path |-> <<>>, before |-> EmptyDb])
            ELSE IF next = "undo" /\ IsTransfer(args) /\ Len(PlacedPaths) = 1
            THEN Some([next |-> "undo", args |-> NoArgs, files |-> <<>>,
                       db |-> EmptyDb, path |-> PlacedPaths[1],
                       before |-> db_before])
            ELSE None
    /\ messages' = {}
    /\ ProcessGone
    /\ UNCHANGED <<accounts_folder, database_file, include_files>>

Next ==
    \/ AddCredentialFile
    \/ LoadFails
    \/ PrintStructure
    \/ ParserError
    \/ ScanDrive
    \/ ScanDriveFailed
    \/ ScanLocalDirectory
    \/ ScanFile
    \/ InvalidSourcePath
    \/ ProcessFile
    \/ CompileTransfer
    \/ ProcessRemoval
    \/ SaveBegin
    \/ SaveDatabase
    \/ SaveInterrupted
    \/ Crash
    \/ Finish
    \/ Exit

Spec == Init /\ [][Next]_vars

\* ---- update_account_usage on its own
\* The account ids and paths a caller may pass: those of the credential
\* files, the empty one among them, and one that no credential file gives.
UpdateIds == {AccountIdOf(f) : f \in SaFileNames} \cup {InvalidSource}
UpdatePaths == {P_a_b_dot_c, P_a_b_c}

\* A ledger as initialize_database makes it from the accounts folder, in the
\* hands of a caller of update_account_usage.
UpdateInit ==
    /\ accounts_folder \in Listings
    /\ database_file = None
    /\ include_files = <<>>
    /\ pc = "update"
    /\ args = NoArgs
    /\ db_before = initialize_database(EmptyDb, JsonFiles(accounts_folder))
    /\ db = db_before
    /\ files_to_transfer = <<>>
    /\ idx = 1
    /\ account_files = <<>>
    /\ rclone_commands = <<>>
    /\ outcomes = <<>>
    /\ prev_run = None
    /\ rerun = FALSE
    /\ file_before = None
    /\ db_loaded = EmptyDb
    /\ db_backup = None
    /\ saves = 0
    /\ messages = {}
    /\ undone = None
    /\ removal_map = <<>>
    /\ run_backup = None

\* One call db = update_account_usage(db, account_id, file_size, file_path):
\* db_before keeps the ledger passed in, messages what the call printed. The
\* call returns to its caller, who may call again. Sizes are kept within the
\* account's capacity.
UpdateAccountUsage ==
    /\ pc = "update"
    /\ \E account_id \in UpdateIds, file_size \in Sizes,
          file_path \in UpdatePaths :
        /\ account_id \in AccountIds(db) =>
                Account(db, account_id).used_space + file_size <= Capacity
        /\ db' = update_account_usage(db, account_id, file_size, file_path)
        /\ messages' = IF account_id \notin AccountIds(db)
                       THEN {"account_not_found"} ELSE {}
    /\ db_before' = db
    /\ pc' = "update"
    /\ UNCHANGED <<accounts_folder, database_file, include_files, args,
                   files_to_transfer, idx, account_files, rclone_commands,
                   outcomes, prev_run, rerun, file_before, db_loaded,
                   db_backup, saves, undone, removal_map, run_backup>>

UpdateNext == UpdateAccountUsage

UpdateSpec == UpdateInit /\ [][UpdateNext]_vars

\* =============================================================== claims
\* A ledger the code holds: main's working copy, its db_before, and the
\* document in the ledger file.
Ledgers == {db, db_before} \cup
           (IF load_database(database_file).raised THEN {}
            ELSE {load_database(database_file).db})

RunIsRemoval == args.structure = None /\ args.remove # None
RunIsTransfer == IsTransfer(args)

\* C1 (capacity conservation): in every state reached by transfer and removal
\* runs from a ledger whose accounts initialize_database created, each
\* account of the working ledger and of the saved ledger has
\* used_space + remaining_space equal to the capacity it was created with.
C1_CapacityConservation ==
    \A ledger \in Ledgers : \A k \in 1..Len(ledger) :
        ledger[k].used_space + ledger[k].remaining_space = Capacity

\* C1 witness: a removal run has ended on a ledger that earlier runs filled,
\* leaving an account that still holds a file.
C1_Witness ==
    /\ pc = "reload" /\ RunIsRemoval
    /\ rclone_commands # <<>>
    /\ \E k \in 1..Len(db) : db[k].used_space > 0

\* C2 (no double placement): a destination path that is a key of one
\* account's files is a key of no other account's files.
C2_NoDoublePlacement ==
    \A ledger \in Ledgers : \A k, l \in 1..Len(ledger) :
        k # l => FilePaths(ledger[k].files) \cap FilePaths(ledger[l].files) = {}

\* C2 witness: two accounts hold files at the end of a transfer run in which
\* a descriptor was skipped as a duplicate.
C2_Witness ==
    /\ pc = "reload" /\ RunIsTransfer
    /\ \E k, l \in 1..Len(db) :
        k # l /\ db[k].files # <<>> /\ db[l].files # <<>>
    /\ \E j \in 1..Len(outcomes) : outcomes[j] = "skipped"

\* C3: each account's used_space is the sum of the sizes of its files, after
\* every placement and every removal.
C3_UsedIsSumOfSizes ==
    \A ledger \in Ledgers : \A k \in 1..Len(ledger) :
        ledger[k].used_space = SumSizes(ledger[k].files)

\* C3 witness: a removal run took one of two files off an account.
C3_Witness ==
    /\ pc = "reload" /\ RunIsRemoval
    /\ \E k \in 1..Len(db) :
        /\ Len(db_before[k].files) = 2
        /\ Len(db[k].files) = 1
        /\ db[k].used_space = 1

\* C4 (fullest first): for every ledger the planner meets and every size,
\* find_suitable_account returns an account only if that account has
\* remaining_space >= size and no account with remaining_space >= size has a
\* strictly larger used_space; it returns None exactly when no account has
\* remaining_space >= size.
ProbeSizes == 0..(Capacity + 1)

C4_FullestFirst ==
    \A size \in ProbeSizes :
        LET result == find_suitable_account(db, size)
            HasRoom(k) == db[k].remaining_space >= size
        IN  /\ (result = None) <=> ~ \E k \in 1..Len(db) : HasRoom(k)
            /\ result # None =>
                \E k \in 1..Len(db) :
                    /\ db[k].id = result[1]
                    /\ HasRoom(k)
                    /\ \A l \in 1..Len(db) :
                        HasRoom(l) => db[l].used_space <= db[k].used_space

\* C4 witness: two accounts have room for a file of size 1, the one later in
\* the ledger is the fuller, and it is the one returned.
C4_Witness ==
    /\ pc = "plan"
    /\ \E k, l \in 1..Len(db) :
        /\ k < l
        /\ db[k].remaining_space >= 1 /\ db[l].remaining_space >= 1
        /\ db[k].used_space < db[l].used_space
        /\ find_suitable_account(db, 1) = Some(db[l].id)

\* ---- the placement loop, one descriptor at a time
\* The loop is about to handle files_to_transfer[idx].
AtDescriptor == pc = "plan" /\ idx <= Len(files_to_transfer)
Current == files_to_transfer[idx]
SomeAccountHasRoom(size) == \E k \in 1..Len(db) : db[k].remaining_space >= size

\* The step is a turn of the loop on files_to_transfer[idx]: the process was
\* not stopped instead.
TurnOfLoop == AtDescriptor /\ pc' = "plan"

\* The include-list gathered so far for an account.
IncludeList(af, account_id) ==
    IF \E k \in 1..Len(af) : af[k].account_id = account_id
    THEN af[CHOOSE k \in 1..Len(af) : af[k].account_id = account_id].file_paths
    ELSE <<>>

RECURSIVE CountLines(_)
CountLines(files) ==
    IF files = <<>> THEN 0 ELSE Len(files[1].lines) + CountLines(Tail(files))

Placed == {j \in 1..Len(outcomes) : outcomes[j] = "placed"}

\* Only placed descriptors reach an include file: the files written by a
\* transfer run hold as many lines as descriptors were placed.
OnlyPlacedAreListed ==
    (pc \in {"save", "open", "reload"} /\ RunIsTransfer)
        => CountLines(include_files) = Cardinality(Placed)

\* Of two descriptors of one run with the same destination path, when the
\* earlier was placed the later was skipped.
SecondOfPairSkipped ==
    \A i, j \in 1..Len(outcomes) :
        (/\ i < j
         /\ files_to_transfer[i].destination_path_with_name
                = files_to_transfer[j].destination_path_with_name
         /\ outcomes[i] = "placed") => outcomes[j] = "skipped"

\* C5 (dedup): a descriptor whose destination_path_with_name is already a key
\* of some account's files, put there by an earlier run or by an earlier
\* descriptor of this run, is skipped: the ledger and every include-list stay
\* as they were; no include file lists it; and of two descriptors with the
\* same destination path, the first having been placed, the second is skipped.
C5_DedupSkips ==
    [][/\ (TurnOfLoop /\ Current.destination_path_with_name \in AllPaths(db))
            => /\ db' = db
               /\ account_files' = account_files
               /\ outcomes' = Append(outcomes, "skipped")
               /\ idx' = idx + 1
       /\ OnlyPlacedAreListed'
       /\ SecondOfPairSkipped']_vars

\* C5 witness: a run ended in which the first of two descriptors with one
\* destination path was placed and the second skipped.
C5_Witness ==
    /\ pc = "reload" /\ RunIsTransfer
    /\ outcomes = <<"placed", "skipped">>
    /\ files_to_transfer[1].destination_path_with_name
        = files_to_transfer[2].destination_path_with_name
    /\ files_to_transfer[1].size # files_to_transfer[2].size

\* C6 (placement frame): when the loop places a descriptor of size s, the
\* account find_suitable_account chose gets files[destination_path_with_name]
\* = {size: s}, used_space + s and remaining_space - s, and the descriptor's
\* relative path at the end of its include-list; every other account and
\* every other include-list is unchanged.
C6_PlacementFrame ==
    [][(/\ TurnOfLoop
        /\ Current.destination_path_with_name \notin AllPaths(db)
        /\ Truthy(find_suitable_account(db, Current.size)))
        => \E k \in 1..Len(db) :
            /\ Some(db[k].id) = find_suitable_account(db, Current.size)
            /\ Len(db') = Len(db)
            /\ db'[k].id = db[k].id
            /\ db'[k].files = Append(db[k].files,
                    [path |-> Current.destination_path_with_name,
                     size |-> Current.size])
            /\ db'[k].used_space = db[k].used_space + Current.size
            /\ db'[k].remaining_space = db[k].remaining_space - Current.size
            /\ \A l \in 1..Len(db) : l # k => db'[l] = db[l]
            /\ IncludeList(account_files', db[k].id)
                = Append(IncludeList(account_files, db[k].id),
                         Current.relative_file_path)
            /\ \A l \in 1..Len(db) : l # k =>
                IncludeList(account_files', db[l].id)
                    = IncludeList(account_files, db[l].id)
            /\ Len(account_files') <= Len(db)]_vars

\* C6 witness: the second file of a run has just been placed on the second
\* account of the ledger while the first account holds the first file.
C6_Witness ==
    /\ pc = "plan" /\ outcomes = <<"placed", "placed">>
    /\ Len(db) >= 2
    /\ db[1].files # <<>> /\ db[2].files # <<>>
    /\ Len(account_files) = 2

AfterUnplaceable ==
    \E j \in 1..Len(outcomes) :
        /\ outcomes[j] = "unplaceable"
        /\ \A k \in 1..Len(db_before) :
            db_before[k].remaining_space < files_to_transfer[j].size

\* The transfer run handled every descriptor, returned one command per
\* account that got a file, and the returned ledger is what was saved.
RunReturnsAndSaves ==
    (pc = "reload" /\ RunIsTransfer) =>
        /\ Len(outcomes) = Len(files_to_transfer)
        /\ Len(rclone_commands) = Len(account_files)
        /\ database_file = Some(Dump(db))

ContinuesAsCoded ==
    [][/\ (TurnOfLoop /\ AfterUnplaceable) =>
            /\ idx' = idx + 1
            /\ Current.destination_path_with_name \in AllPaths(db) =>
                /\ outcomes' = Append(outcomes, "skipped")
                /\ db' = db
            /\ (/\ Current.destination_path_with_name \notin AllPaths(db)
                /\ \E k \in 1..Len(db) :
                    /\ db[k].id # <<>>
                    /\ Some(db[k].id) = find_suitable_account(db, Current.size))
                =>
                /\ outcomes' = Append(outcomes, "placed")
                /\ Current.destination_path_with_name \in AllPaths(db')
       /\ RunReturnsAndSaves']_vars

\* C9 (dedup idempotence): a transfer run that repeats the previous run's
\* descriptors on the ledger that run produced places nothing, leaves every
\* account's used_space, remaining_space and files as they were, and returns
\* no command and writes no include file.
C9_RerunPlacesNothing ==
    rerun =>
        /\ db = db_before
        /\ account_files = <<>>
        /\ Placed = {}
        /\ rclone_commands = <<>>
        /\ include_files = <<>>

\* C9 witness: the repeat of a run that had placed a file on each of two
\* accounts has ended.
C9_Witness ==
    /\ rerun /\ pc = "reload"
    /\ Len(outcomes) = 2
    /\ \E k, l \in 1..Len(db) :
        k # l /\ db[k].files # <<>> /\ db[l].files # <<>>
    /\ \A j \in 1..2 :
        \E k \in 1..Len(db) : db[k].id # <<>> /\
            [path |-> files_to_transfer[j].destination_path_with_name,
             size |-> files_to_transfer[j].size] \in Range(db[k].files)

\* ---- removal
\* p is a prefix of s, as strings.
IsPrefixOf(p, s) == \E n \in 0..Len(s) : SubSeq(s, 1, n) = p

\* C10: a removal run with prefix p removes exactly the entries whose path
\* starts with p as a plain string: afterwards no account holds such an
\* entry, every other entry is where it was, and each account's used_space
\* has gone down and its remaining_space up by the sizes of its removed
\* entries; the whole selection is removed, never a part of it.
C10_RemovalRemovesAllMatches ==
    (pc \in {"save", "open", "reload"} /\ RunIsRemoval) =>
        LET p == args.remove[1]
            Gone(e) == IsPrefixOf(p, e.path)
            Kept(e) == ~ IsPrefixOf(p, e.path)
        IN  /\ Len(db) = Len(db_before)
            /\ \A k \in 1..Len(db) :
                LET removed == SumSizes(SelectSeq(db_before[k].files, Gone))
                IN  /\ db[k].id = db_before[k].id
                    /\ db[k].files = SelectSeq(db_before[k].files, Kept)
                    /\ db[k].used_space = db_before[k].used_space - removed
                    /\ db[k].remaining_space
                        = db_before[k].remaining_space + removed
            /\ \A path \in AllPaths(db) : ~ IsPrefixOf(p, path)

\* C10 witness: removal with prefix "a/b" has taken "a/b.c" and "a/b/c" off
\* one account, which had both.
C10_Witness ==
    /\ pc = "reload" /\ RunIsRemoval
    /\ args.remove = Some(P_a_b)
    /\ \E k \in 1..Len(db) :
        /\ FilePaths(db_before[k].files) = {P_a_b_dot_c, P_a_b_c}
        /\ db[k].files = <<>>
        /\ db[k].used_space = 0
        /\ db[k].remaining_space = Capacity

\* The removal run has planned: process_removal has returned to main.
RemovalPlanned == pc \in {"save", "open", "reload"} /\ RunIsRemoval
Matches(e) == IsPrefixOf(args.remove[1], e.path)

\* C11 (removal frame): a removal run leaves every entry whose path does not
\* start with the prefix where it was, on the same account with the same
\* size, and leaves used_space, remaining_space and files as they were on
\* every account that holds no matching entry.
C11_RemovalFrame ==
    RemovalPlanned =>
        /\ Len(db) = Len(db_before)
        /\ \A k \in 1..Len(db_before) :
            /\ db[k].id = db_before[k].id
            /\ \A e \in Range(db_before[k].files) :
                ~ Matches(e) => e \in Range(db[k].files)
            /\ (\A e \in Range(db_before[k].files) : ~ Matches(e))
                => db[k] = db_before[k]

\* C11 witness: a/b/c and a/b.c were on different accounts; the removal of
\* "a/b/" took a/b/c away and left a/b.c and its account's usage alone.
C11_Witness ==
    /\ pc = "reload" /\ RunIsRemoval
    /\ args.remove = Some(P_a_b \o <<"/">>)
    /\ \E k, l \in 1..Len(db_before) :
        /\ k # l
        /\ FilePaths(db_before[k].files) = {P_a_b_c}
        /\ FilePaths(db_before[l].files) = {P_a_b_dot_c}
        /\ db[k].files = <<>>
        /\ db[l] = db_before[l]
        /\ db[l].used_space > 0

\* C12 (nothing to remove): when no entry of the ledger starts with the
\* prefix, the removal run reports that there is nothing to remove, returns
\* a ledger equal to the one it was given, returns no command and writes no
\* include file.
C12_NothingToRemove ==
    (/\ RemovalPlanned
     /\ \A k \in 1..Len(db_before) :
            \A e \in Range(db_before[k].files) : ~ Matches(e))
        => /\ "nothing_to_remove" \in messages
           /\ db = db_before
           /\ rclone_commands = <<>>
           /\ include_files = <<>>

\* C12 witness: a removal run ended on a ledger that holds files, none under
\* the prefix: the report was given and the ledger saved is the one loaded.
C12_Witness ==
    /\ pc = "reload" /\ RunIsRemoval
    /\ AllPaths(db_before) # {}
    /\ \A p \in AllPaths(db_before) : ~ IsPrefixOf(args.remove[1], p)
    /\ "nothing_to_remove" \in messages
    /\ db = db_before
    /\ rclone_commands = <<>>
    /\ database_file = Some(Dump(db_before))

\* C13 (removal reversibility): when a transfer run placed one file and the
\* next run removes with that file's exact destination path as prefix, no
\* other entry starting with that path, every account's used_space and
\* remaining_space are back at their values before the placement.
C13_RemovalReverses ==
    (/\ RemovalPlanned
     /\ undone # None
     /\ Cardinality({p \in AllPaths(db_before) :
                        IsPrefixOf(args.remove[1], p)}) = 1)
        => /\ Len(db) = Len(undone[1])
           /\ \A k \in 1..Len(db) :
                /\ db[k].id = undone[1][k].id
                /\ db[k].used_space = undone[1][k].used_space
                /\ db[k].remaining_space = undone[1][k].remaining_space

\* C13 witness: an account that already held a file got a second one; the
\* removal of that second file's path has ended and the ledger is the one
\* from before the placement.
C13_Witness ==
    /\ pc = "reload" /\ RunIsRemoval
    /\ undone # None
    /\ db # db_before
    /\ db = undone[1]
    /\ \E k \in 1..Len(db) :
        /\ db[k].files # <<>>
        /\ Len(db_before[k].files) = Len(db[k].files) + 1

\* ---- the ledger file
Unreadable(file) == file # None /\ ~ file[1].complete
RunSaves == RunIsTransfer \/ RunIsRemoval

\* C14 (only save persists): the ledger file changes only in steps of
\* save_database, which a transfer or removal run calls once, after its
\* planner has returned; while a planner runs the file is as the run found
\* it, and a run stopped during planning leaves it so.
C14_OnlySavePersists ==
    [][/\ database_file' # database_file =>
            (pc \in {"save", "open"} /\ (saves = 1 \/ saves' = 1))
       /\ saves' > saves => (pc = "save" /\ saves = 0)
       /\ pc' \in {"plan", "save"} =>
            (saves' = 0 /\ database_file' = file_before')
       /\ (pc' = "reload" /\ RunSaves') => saves' = 1
       /\ (pc = "plan" /\ pc' = "start") => database_file' = file_before]_vars

\* C14 witness: a run was stopped during planning, and the ledger file is
\* still the document an earlier run saved, files and all.
C14_Witness ==
    /\ pc = "start"
    /\ "stopped_planning" \in messages
    /\ database_file # None
    /\ database_file[1].complete
    /\ AllPaths(json_load(database_file[1].json)) # {}

\* C15 (unreadable ledger): while the ledger file is there and is no JSON
\* document, every run ends at load_database: it reports the failure, inserts
\* no account, places and removes nothing, returns no command, makes no backup
\* copy and does not save, and the file stays as it is; no run goes on with an
\* empty ledger.
C15_UnreadableLedgerAborts ==
    [][(pc = "start" /\ Unreadable(database_file)) =>
        /\ database_file' = database_file
        /\ pc' = "start"
        /\ db_loaded' = EmptyDb /\ db_before' = EmptyDb /\ db' = EmptyDb
        /\ outcomes' = <<>> /\ rclone_commands' = <<>>
        /\ saves' = 0 /\ db_backup' = None
        /\ accounts_folder' = accounts_folder => "load_error" \in messages']_vars

\* C15 witness: a write of the ledger file was cut short, and a later run has
\* ended at load_database.
C15_Witness ==
    /\ pc = "start"
    /\ database_file = Some(Truncated)
    /\ "load_error" \in messages

\* C16 (load): with no ledger file load_database returns the empty ledger and
\* does not fail; with a ledger file that holds a JSON document it returns
\* the ledger of that document.
C16_LoadAbsentIsEmpty ==
    /\ (pc # "start" /\ file_before = None) => db_loaded = EmptyDb
    /\ "load_error" \in messages => database_file # None
    /\ (pc # "start" /\ file_before # None) =>
        (file_before[1].complete /\ file_before = Some(Dump(db_loaded)))

\* C16 witness: a transfer run that found no ledger file went on from the
\* empty ledger, placed a file and saved.
C16_Witness ==
    /\ pc = "reload" /\ RunIsTransfer
    /\ file_before = None
    /\ db_loaded = EmptyDb
    /\ Placed # {}
    /\ database_file = Some(Dump(db))

\* The save has made its backup copy.
BackedUp == pc \in {"open", "reload"} /\ saves = 1

\* C17 (backup before overwrite): when a ledger file exists, the copy made by
\* save holds what the file held just before this save, and it is made while
\* the file still holds that; when no ledger file exists, save makes no copy,
\* warns that the file was not found, and still writes the new ledger.
C17_BackupBeforeOverwrite ==
    /\ (BackedUp /\ file_before # None) => db_backup = file_before
    /\ (pc = "open" /\ file_before # None) => database_file = file_before
    /\ (BackedUp /\ file_before = None) =>
        (db_backup = None /\ "no_backup_warning" \in messages)
    /\ (pc = "reload" /\ saves = 1) => database_file = Some(Dump(db))

\* What save_database does: as C17 when a ledger file exists; when none
\* exists, the copy holds the placeholder document written just before and
\* the warning is not given.
BacksUpAsCoded ==
    /\ (BackedUp /\ file_before # None) => db_backup = file_before
    /\ (pc = "open" /\ file_before # None) => database_file = file_before
    /\ (BackedUp /\ file_before = None) =>
        /\ db_backup = Some(Dump(EmptyDb))
        /\ "no_backup_warning" \notin messages
        /\ "backup_created" \in messages
    /\ (pc = "reload" /\ saves = 1) => database_file = Some(Dump(db))

\* C18 (atomic write): the ledger file is never an empty or partial
\* document, and from the call of save_database on it holds either the
\* complete document from before the save or the complete new ledger.
C18_SaveIsAtomic ==
    /\ database_file # None => database_file[1].complete
    /\ pc \in {"save", "open", "reload"} =>
        database_file \in {file_before, Some(Dump(db))}

\* What can be seen of the ledger file around a save: the old document, the
\* new one, the placeholder when there was no file, or the remains of a
\* write that was cut short.
SaveAsCoded ==
    /\ pc \in {"save", "open", "reload"} =>
        database_file \in {file_before, Some(Dump(db)), Some(Dump(EmptyDb))}
    /\ Unreadable(database_file) =>
        (pc = "start" /\ database_file = Some(Truncated))

\* C19 (ensureAccounts): initialize_database appends, for each credential
\* file whose id the loaded ledger lacks, an account with used_space 0,
\* remaining_space Capacity and no files, and leaves the accounts already
\* there as they are; applied again to its result it changes nothing.
C19_EnsureAccounts ==
    pc # "start" =>
        /\ Len(db_loaded) <= Len(db_before)
        /\ SubSeq(db_before, 1, Len(db_loaded)) = db_loaded
        /\ \A k \in (Len(db_loaded) + 1)..Len(db_before) :
            /\ db_before[k].id \notin AccountIds(db_loaded)
            /\ db_before[k].used_space = 0
            /\ db_before[k].remaining_space = Capacity
            /\ db_before[k].files = <<>>
        /\ \A k, l \in 1..Len(db_before) :
            db_before[k].id = db_before[l].id => k = l
        /\ AccountIds(db_before) =
            AccountIds(db_loaded)
                \cup {SelectSeq(f, LAMBDA t : t # ".json") :
                        f \in Range(accounts_folder)}
        /\ initialize_database(db_before, JsonFiles(accounts_folder))
            = db_before

\* C19 witness: the loaded ledger has an account that holds a file, a
\* credential file has been added since, and the run goes on with the old
\* account as it was and a fresh one after it.
C19_Witness ==
    /\ pc = "plan"
    /\ Len(db_loaded) >= 1
    /\ Len(db_before) = Len(db_loaded) + 1
    /\ \E k \in 1..Len(db_loaded) :
        db_loaded[k].files # <<>> /\ db_before[k] = db_loaded[k]
    /\ db_before[Len(db_before)].used_space = 0

\* C20 (round trip): what load_database returns from the file save_database
\* wrote is the ledger that was saved, with the same accounts in the same
\* order and for each the same used_space, remaining_space and files with
\* their sizes; and so for every ledger the run holds.
C20_RoundTrip ==
    /\ (pc = "reload" /\ saves = 1) =>
        /\ ~ load_database(database_file).raised
        /\ load_database(database_file).db = db
    /\ \A ledger \in {db, db_before, db_loaded} :
        load_database(Some(Dump(ledger))) = [raised |-> FALSE, db |-> ledger]

\* C20 witness: a run has saved a ledger of two accounts or more, one of them
\* with two files and one with none, and the file reads back as that ledger.
C20_Witness ==
    /\ pc = "reload" /\ saves = 1
    /\ Len(db) >= 2
    /\ \E k, l \in 1..Len(db) :
        Len(db[k].files) = 2 /\ db[l].files = <<>>
    /\ database_file # file_before
    /\ load_database(database_file).db = db

\* ---- the directives of a transfer run
TransferPlanned == pc \in {"save", "open", "reload", "done"} /\ RunIsTransfer
PlacedPath(j) == files_to_transfer[j].destination_path_with_name

\* The account whose files hold the path.
Holder(path) ==
    db[CHOOSE k \in 1..Len(db) : path \in FilePaths(db[k].files)].id

\* The descriptors of this run placed on the account, in input order.
PlacedOn(account_id) ==
    SelectSeq([j \in 1..Len(outcomes) |-> j],
              LAMBDA j : /\ outcomes[j] = "placed"
                         /\ Holder(PlacedPath(j)) = account_id)

\* The accounts that received a file in this run.
Touched == {Holder(PlacedPath(j)) : j \in Placed}

\* The commands of the run that address the account's remote.
DirectivesOf(account_id) ==
    {k \in 1..Len(rclone_commands) :
        rclone_commands[k].remote = <<"g">> \o account_id}

\* C21 (one directive per account): the commands a transfer run returns are
\* copy commands, exactly one for each account that received at least one file
\* in the run and none for any other account, so that there are as many
\* commands as accounts touched, however many files were placed.
C21_OneDirectivePerAccount ==
    TransferPlanned =>
        /\ Len(rclone_commands) = Cardinality(Touched)
        /\ \A account_id \in Touched :
            Cardinality(DirectivesOf(account_id)) = 1
        /\ \A k \in 1..Len(rclone_commands) :
            /\ rclone_commands[k].op = "copy"
            /\ \E account_id \in Touched : k \in DirectivesOf(account_id)

\* C21 witness: a transfer run placed two files on one account and nothing on
\* another account that is in the ledger, and returned one command.
C21_Witness ==
    /\ TransferPlanned
    /\ Cardinality(Placed) = 2
    /\ Cardinality(Touched) = 1
    /\ Len(db) = 2
    /\ Len(rclone_commands) = 1

\* C22 (one destination root per directive): every file a transfer run placed
\* on an account is covered by a command of that account whose destination is
\* the file's own destination directory, files with differing destination
\* directories on one account being given separate commands.
C22_SharedDestinationRoot ==
    TransferPlanned =>
        \A j \in Placed :
            \E k \in DirectivesOf(Holder(PlacedPath(j))) :
                rclone_commands[k].destination =
                    files_to_transfer[j].destination_path

\* What the code does: the account's one command carries the destination
\* directory of the first file placed on the account in the run.
FirstRootAsCoded ==
    TransferPlanned =>
        \A account_id \in Touched :
            \A k \in DirectivesOf(account_id) :
                rclone_commands[k].destination =
                    files_to_transfer[PlacedOn(account_id)[1]].destination_path

\* A directory was walked, and its top-level file and the file of its
\* subdirectory were placed on one account.
TwoRootsOnOneAccount ==
    /\ TransferPlanned
    /\ Cardinality(Touched) = 1
    /\ \E i, j \in Placed :
        files_to_transfer[i].destination_path
            # files_to_transfer[j].destination_path

\* The relative source paths of the descriptors placed on the account, in
\* input order.
RelativePathsOn(account_id) ==
    [k \in 1..Len(PlacedOn(account_id)) |->
        files_to_transfer[PlacedOn(account_id)[k]].relative_file_path]

\* C23 (input order): the loop takes the descriptors one by one in the order
\* of the list; each is decided on the ledger as the placements before it left
\* it (skipped when its path is there, else placed when an account is chosen,
\* else unplaceable); and each account's include-list is the relative source
\* paths of the descriptors placed on it, in input order.
C23_InputOrder ==
    [][/\ TurnOfLoop =>
            /\ Len(outcomes) = idx - 1
            /\ idx' = idx + 1
            /\ AllPaths(db) = AllPaths(db_before) \cup
                    {PlacedPath(j) : j \in Placed}
            /\ outcomes' = Append(outcomes,
                    IF PlacedPath(idx) \in AllPaths(db) THEN "skipped"
                    ELSE IF Truthy(find_suitable_account(db, Current.size))
                    THEN "placed" ELSE "unplaceable")
       /\ (RunIsTransfer /\ pc \in {"plan", "save", "open", "reload", "done"})'
            => /\ \A account_id \in AccountIds(db') :
                    IncludeList(account_files, account_id)'
                        = RelativePathsOn(account_id)'
               /\ \A k \in 1..Len(account_files') :
                    /\ account_files'[k].account_id \in Touched'
                    /\ \A l \in 1..Len(account_files') :
                        account_files'[l].account_id
                            = account_files'[k].account_id => l = k]_vars

\* C23 witness: two descriptors with different relative paths were placed on
\* one account, whose include-list holds the two paths in input order.
C23_Witness ==
    /\ TransferPlanned
    /\ Len(outcomes) = 2
    /\ outcomes[1] = "placed" /\ outcomes[2] = "placed"
    /\ Len(account_files) = 1
    /\ files_to_transfer[1].relative_file_path
        # files_to_transfer[2].relative_file_path
    /\ account_files[1].file_paths =
        <<files_to_transfer[1].relative_file_path,
          files_to_transfer[2].relative_file_path>>

MatchedPaths(acc) ==
    LET hits == SelectSeq(acc.files, Matches)
    IN  [l \in 1..Len(hits) |-> hits[l].path]

\* The accounts, in ledger order, that held a match before the run.
MatchHolders == SelectSeq(db_before, LAMBDA acc : MatchedPaths(acc) # <<>>)

\* C25 (delete directives): a removal run whose prefix matches something
\* returns delete commands, exactly one for each account that held a matching
\* entry and none for any other account, and the include-list handed to each
\* is that account's matching paths and no path of another account.
C25_DeleteDirectives ==
    (pc \in {"save", "open", "reload", "done"} /\ RunIsRemoval
        /\ MatchHolders # <<>>) =>
        /\ Len(rclone_commands) = Len(MatchHolders)
        /\ Len(removal_map) = Len(MatchHolders)
        /\ \A k \in 1..Len(MatchHolders) :
            /\ rclone_commands[k].op = "delete"
            /\ rclone_commands[k].remote = <<"g">> \o MatchHolders[k].id
            /\ rclone_commands[k].include_from = removal_map[k].account_id
            /\ removal_map[k].account_id = MatchHolders[k].id
            /\ [l \in 1..Len(removal_map[k].data) |->
                    removal_map[k].data[l].path]
                = MatchedPaths(MatchHolders[k])
            /\ \A l \in 1..Len(MatchHolders) :
                MatchHolders[l].id = MatchHolders[k].id => l = k

\* C25 witness: two accounts each held one entry under the prefix, with
\* different paths; two delete commands came out, each with the one path of
\* its account.
C25_Witness ==
    /\ pc = "save" /\ RunIsRemoval
    /\ Len(MatchHolders) = 2
    /\ Len(rclone_commands) = 2
    /\ Len(removal_map[1].data) = 1
    /\ Len(removal_map[2].data) = 1
    /\ removal_map[1].data[1].path # removal_map[2].data[1].path

\* ---- the include files
\* The include-lists the run handed to create_rclone_include_file, in order:
\* per account, the relative paths of a transfer or the matched paths of a
\* removal.
IncludeLists ==
    IF RunIsRemoval
    THEN [k \in 1..Len(removal_map) |->
            [account_id |-> removal_map[k].account_id,
             file_paths |-> [l \in 1..Len(removal_map[k].data) |->
                                removal_map[k].data[l].path]]]
    ELSE [k \in 1..Len(account_files) |->
            [account_id |-> account_files[k].account_id,
             file_paths |-> account_files[k].file_paths]]

Planned == pc \in {"save", "open", "reload", "done"}

\* C26 (include file is literal): the include file written for a command
\* holds, one per line and in order, the paths of the command's include-list
\* as they are, whatever characters they contain.
C26_IncludeFileIsLiteral ==
    Planned =>
        /\ Len(include_files) = Len(IncludeLists)
        /\ \A k \in 1..Len(include_files) :
            /\ include_files[k].account_id = IncludeLists[k].account_id
            /\ include_files[k].lines = IncludeLists[k].file_paths

\* A line with the backslashes that precede a special character taken out.
RECURSIVE Unescaped(_)
Unescaped(line) ==
    IF line = <<>> THEN <<>>
    ELSE IF line[1] = "\\" /\ Len(line) >= 2 /\ line[2] \in RegexSpecial
    THEN <<line[2]>> \o Unescaped(SubSeq(line, 3, Len(line)))
    ELSE <<line[1]>> \o Unescaped(Tail(line))

\* What the code does: one line per path and in order, each line the path
\* with a backslash put before every character that is special in a regular
\* expression; a path without such a character is written as it is.
EscapedAsCoded ==
    Planned =>
        /\ Len(include_files) = Len(IncludeLists)
        /\ \A k \in 1..Len(include_files) :
            /\ include_files[k].account_id = IncludeLists[k].account_id
            /\ Len(include_files[k].lines) = Len(IncludeLists[k].file_paths)
            /\ \A l \in 1..Len(include_files[k].lines) :
                LET line == include_files[k].lines[l]
                    file_path == IncludeLists[k].file_paths[l]
                IN  /\ Unescaped(line) = file_path
                    /\ Len(line) = Len(file_path) +
                        Cardinality({n \in 1..Len(file_path) :
                                        file_path[n] \in RegexSpecial})
                    /\ (Range(file_path) \cap RegexSpecial = {})
                        => line = file_path

\* A transfer run has written the include file of an account that was given
\* the file "b.c" and the file "b/c".
DottedPathWritten ==
    /\ Planned /\ RunIsTransfer
    /\ Len(include_files) = 1
    /\ account_files[1].file_paths = <<P_b_dot_c, P_b_c>>
    /\ include_files[1].lines = <<<<"b", "\\", ".", "c">>, P_b_c>>

\* ---- the backup of the run
\* C27 (the two snapshots): when a run makes its backup, database_before.json
\* is the ledger as main had it before the planner ran, that is the loaded
\* ledger with the missing accounts added, whatever the planner did to its
\* own ledger since; and database_after.json is the ledger that save_database
\* wrote to the ledger file.
C27_BackupSnapshots ==
    (pc = "done" /\ run_backup # None) =>
        /\ json_load(run_backup[1].database_before) = db_before
        /\ db_before = initialize_database(load_database(file_before).db,
                                           JsonFiles(accounts_folder))
        /\ database_file # None
        /\ database_file[1].complete
        /\ run_backup[1].database_after = database_file[1].json
        /\ json_load(run_backup[1].database_after) = db
        /\ saves = 1

\* C27 witness: a removal run that took an entry out of a ledger to which it
\* had first added an account has made its backup, and the two snapshots
\* differ.
C27_Witness ==
    /\ pc = "done" /\ RunIsRemoval
    /\ run_backup # None
    /\ db # db_before
    /\ db_before # db_loaded
    /\ run_backup[1].database_before # run_backup[1].database_after

\* The run was a removal whose prefix matched nothing, and main is at its end.
NothingMatched == pc = "done" /\ RunIsRemoval /\ MatchHolders = <<>>

\* C28 (backup of a removal that matched nothing): a removal run whose prefix
\* matches no entry ends with a backup whose database_before.json and
\* database_after.json both hold the ledger, which the run left unchanged.
C28_NothingToRemoveBackup ==
    NothingMatched =>
        /\ db = db_before
        /\ run_backup # None
        /\ json_load(run_backup[1].database_before) = db_before
        /\ json_load(run_backup[1].database_after) = db_before

\* What the code does: the run reports that there is nothing to remove, saves
\* the unchanged ledger, and makes no backup, for main makes one only when
\* commands were returned.
NoBackupAsCoded ==
    NothingMatched =>
        /\ db = db_before
        /\ "nothing_to_remove" \in messages
        /\ database_file = Some(Dump(db_before))
        /\ rclone_commands = <<>>
        /\ run_backup = None
        /\ "no_changes" \in messages

\* A removal whose prefix matched nothing in a ledger that holds a file has
\* come to its end.
NothingMatchedEnded ==
    /\ NothingMatched
    /\ AllPaths(db_before) # {}
    /\ args.remove[1] # <<>>

\* ---- the life of an entry
\* Every entry of the ledger from is in the ledger to, on the same account
\* with the same size, and on no other account.
Preserved(from, to) ==
    /\ Len(to) >= Len(from)
    /\ \A k \in 1..Len(from) :
        /\ to[k].id = from[k].id
        /\ \A e \in Range(from[k].files) :
            /\ e \in Range(to[k].files)
            /\ \A l \in 1..Len(to) :
                e.path \in FilePaths(to[l].files) => l = k

\* C29 (no mutation in place): a transfer run keeps every entry it finds or
\* makes: the entries of the ledger file are in the ledger the run starts
\* with, every step of the run leaves each entry of its ledger on the same
\* account with the same size, a descriptor with the path of an entry, of
\* whatever size, included, and the ledger the run saves is the one it holds.
C29_NoMutationInPlace ==
    [][/\ (pc = "start" /\ pc' # "start" /\ RunIsTransfer') =>
            Preserved(load_database(database_file).db, db')
       /\ (pc # "start" /\ pc' # "start" /\ RunIsTransfer /\ db' # db) =>
            Preserved(db, db')
       /\ (pc = "open" /\ pc' = "reload" /\ RunIsTransfer) =>
            load_database(database_file').db = db]_vars

\* C29 witness: the run was given a descriptor with the path of an entry that
\* an earlier run had saved, and a size other than the entry's; it skipped
\* the descriptor, and the entry is as it was.
C29_Witness ==
    /\ pc = "plan" /\ RunIsTransfer
    /\ Len(outcomes) >= 1
    /\ outcomes[1] = "skipped"
    /\ file_before # None
    /\ \E k \in 1..Len(db) :
        \E e \in Range(db[k].files) :
            /\ e.path = PlacedPath(1)
            /\ e.size # files_to_transfer[1].size
            /\ e \in Range(load_database(file_before).db[k].files)

\* ---- the account with the empty id
\* C30 (placed whenever there is room): a descriptor whose path is not in the
\* ledger is left unplaceable only when no account has room for its size;
\* when find_suitable_account returns an account, whatever its id, the empty
\* id of ".json" included, the descriptor is placed on that account.
C30_PlacedWheneverRoom ==
    [][(TurnOfLoop /\ PlacedPath(idx) \notin AllPaths(db)) =>
            LET account_id == find_suitable_account(db, Current.size)
            IN  /\ outcomes' = Append(outcomes, "unplaceable")
                    => ~ SomeAccountHasRoom(Current.size)
                /\ account_id # None =>
                    /\ outcomes' = Append(outcomes, "placed")
                    /\ PlacedPath(idx)
                        \in FilePaths(Account(db', account_id[1]).files)]_vars

\* What the code does: the descriptor is placed on the account returned when
\* the id is not the empty string, and is left unplaceable, the ledger as it
\* was, when no account is returned or the one returned has the empty id.
PlacedWhenIdNotEmpty ==
    [][(TurnOfLoop /\ PlacedPath(idx) \notin AllPaths(db)) =>
            LET account_id == find_suitable_account(db, Current.size)
            IN  IF account_id # None /\ account_id[1] # <<>>
                THEN /\ outcomes' = Append(outcomes, "placed")
                     /\ PlacedPath(idx)
                        \in FilePaths(Account(db', account_id[1]).files)
                ELSE /\ outcomes' = Append(outcomes, "unplaceable")
                     /\ db' = db]_vars

\* The account of ".json" had room for the descriptor and was the one
\* returned, and the descriptor was left unplaceable.
EmptyIdPassedOver ==
    /\ pc = "plan"
    /\ outcomes = <<"unplaceable">>
    /\ db = db_before
    /\ find_suitable_account(db, files_to_transfer[1].size) = Some(<<>>)

\* ---- the bounds of an account's usage
\* C31 (usage stays within bounds): in every ledger that transfer and removal
\* runs produce from the accounts initialize_database created, in memory or
\* on file, every account has remaining_space >= 0 and used_space >= 0: no
\* placement goes beyond the capacity and no removal below zero.
C31_UsageWithinBounds ==
    \A ledger \in Ledgers : \A k \in 1..Len(ledger) :
        /\ ledger[k].remaining_space >= 0
        /\ ledger[k].used_space >= 0

\* C31 witness: an account that placements had filled to its capacity has
\* been emptied by a removal run.
C31_Witness ==
    /\ pc = "done" /\ RunIsRemoval
    /\ \E k \in 1..Len(db) :
        /\ db_before[k].remaining_space = 0
        /\ db_before[k].used_space = Capacity
        /\ Len(db_before[k].files) = 2
        /\ db[k].used_space = 0
        /\ db[k].remaining_space = Capacity

\* ---- ties between accounts
\* The ledger with its accounts in the opposite order.
Reversed(ledger) ==
    [k \in 1..Len(ledger) |-> ledger[Len(ledger) + 1 - k]]

\* The account returned for the size is, of the accounts of the ledger with
\* room for it and the largest used_space, the first in the ledger's order.
FirstOfTheFullest(ledger, size) ==
    LET result == find_suitable_account(ledger, size)
        HasRoom(k) == ledger[k].remaining_space >= size
    IN  (\E k \in 1..Len(ledger) : HasRoom(k)) =>
            /\ result # None
            /\ \E k \in 1..Len(ledger) :
                /\ ledger[k].id = result[1]
                /\ HasRoom(k)
                /\ \A l \in 1..Len(ledger) :
                    HasRoom(l) => ledger[l].used_space <= ledger[k].used_space
                /\ \A l \in 1..(k - 1) :
                    HasRoom(l) => ledger[l].used_space < ledger[k].used_space

\* C32 (ties go by ledger order): when several accounts with room tie for the
\* largest used_space, find_suitable_account returns the one that comes first
\* in the order of the ledger, whatever the ids; so the same accounts in the
\* opposite order give the account that is first in that order.
C32_TieByLedgerOrder ==
    \A size \in ProbeSizes :
        /\ FirstOfTheFullest(db, size)
        /\ FirstOfTheFullest(Reversed(db), size)

\* C32 witness: the ledger held the account "b" before the account "a",
\* both empty; the run's first file, of size 1, went to "b", and "a" is the
\* answer for the same accounts in the opposite order.
C32_Witness ==
    /\ pc = "plan"
    /\ Len(db_before) = 2
    /\ db_before[1].id = <<"b">> /\ db_before[2].id = <<"a">>
    /\ db_before[1].used_space = db_before[2].used_space
    /\ outcomes = <<"placed">>
    /\ files_to_transfer[1].size = 1
    /\ db[1].files # <<>> /\ db[2].files = <<>>
    /\ find_suitable_account(db_before, 1) = Some(<<"b">>)
    /\ find_suitable_account(Reversed(db_before), 1) = Some(<<"a">>)

\* ---- removal of everything
\* The accounts, in ledger order, that held a file before the run.
FileHolders == SelectSeq(db_before, LAMBDA acc : acc.files # <<>>)

\* C33 (empty prefix): a removal run whose prefix is the empty string is
\* carried out, not turned away: every account's files are emptied, its
\* used_space goes down and its remaining_space up by the sum of the sizes of
\* the files it held, and a delete command is returned for each account that
\* held a file and for no other.
C33_EmptyPrefixRemovesAll ==
    (pc \in {"save", "open", "reload", "done"} /\ RunIsRemoval
        /\ args.remove[1] = <<>>) =>
        /\ Len(db) = Len(db_before)
        /\ \A k \in 1..Len(db) :
            /\ db[k].id = db_before[k].id
            /\ db[k].files = <<>>
            /\ db[k].used_space
                = db_before[k].used_space - SumSizes(db_before[k].files)
            /\ db[k].remaining_space
                = db_before[k].remaining_space + SumSizes(db_before[k].files)
        /\ Len(rclone_commands) = Len(FileHolders)
        /\ \A k \in 1..Len(FileHolders) :
            /\ rclone_commands[k].op = "delete"
            /\ rclone_commands[k].remote = <<"g">> \o FileHolders[k].id
        /\ "invalid_source" \notin messages
        /\ AllPaths(db_before) = {} <=> "nothing_to_remove" \in messages

\* C33 witness: the run with the empty prefix has emptied two accounts that
\* held a file each, next to a third account or not, returned two delete
\* commands and saved the ledger.
C33_Witness ==
    /\ pc = "done" /\ RunIsRemoval
    /\ args.remove[1] = <<>>
    /\ Len(FileHolders) = 2
    /\ Len(rclone_commands) = 2
    /\ AllPaths(db) = {}
    /\ database_file = Some(Dump(db))

\* ---- sources that yield no listing
\* The source of the run is neither "id=...", a directory nor a file.
SourceIsInvalid ==
    /\ RunIsTransfer
    /\ ~ StartsWith(args.source[1], IdPrefix)
    /\ args.source[1] \notin LocalDirs
    /\ args.source[1] \notin LocalFiles

\* The run has planned nothing: the ledger is the one it was given, no
\* command, no include file, no placement.
NothingWasPlanned ==
    /\ db = db_before
    /\ rclone_commands = <<>>
    /\ include_files = <<>>
    /\ account_files = <<>>
    /\ outcomes = <<>>

\* C34 (no listing): a transfer run whose source is invalid never enters the
\* placement loop and ends its planning with the ledger it was given, no
\* command, no placement and no include file; and every transfer run that
\* returns before the placement loop, which is what a run does on an invalid
\* source and on a remote lister that failed, returns just that.
C34_FailedSourcePlansNothing ==
    /\ [](SourceIsInvalid =>
            /\ pc # "plan"
            /\ pc \in {"save", "open", "reload", "done"} => NothingWasPlanned)
    /\ [][(pc = "start" /\ pc' = "save" /\ RunIsTransfer')
            => NothingWasPlanned']_vars

\* C34 witness: a run on the invalid source has ended over a ledger that
\* holds a file, which it has left in place.
C34_Witness ==
    /\ pc = "done"
    /\ SourceIsInvalid
    /\ NothingWasPlanned
    /\ AllPaths(db) # {}
    /\ saves = 1

\* C34 witness, remote lister: a run on an "id=..." source has returned
\* before the placement loop over a ledger that holds a file.
C34_WitnessLister ==
    /\ pc = "save"
    /\ RunIsTransfer
    /\ StartsWith(args.source[1], IdPrefix)
    /\ files_to_transfer = <<>>
    /\ AllPaths(db) # {}

\* ---- one save per run
\* C35 (saves and backups): a transfer or removal run that has ended its
\* planning has not saved yet; once past save_database's backup step it has
\* called save once and a copy of the ledger file exists, whether or not
\* anything was placed or removed; and at the end of the run the run backup
\* exists exactly when the command list is not empty. A run that only prints
\* the structure never saves.
C35_OneSavePerRun ==
    /\ (RunSaves /\ pc = "save") => saves = 0 /\ run_backup = None
    /\ (RunSaves /\ pc \in {"open", "reload", "done"}) =>
            /\ saves = 1
            /\ db_backup # None
    /\ (RunSaves /\ pc \in {"open", "reload"}) => run_backup = None
    /\ (RunSaves /\ pc = "done") =>
            (run_backup # None <=> rclone_commands # <<>>)
    /\ (pc = "done" /\ ~ RunSaves) => saves = 0 /\ run_backup = None

\* C35 witness: a transfer that placed nothing, on a ledger that holds a
\* file, has ended: one save, a copy of the ledger file as it stood, and no
\* run backup.
C35_Witness ==
    /\ pc = "done" /\ RunIsTransfer
    /\ rclone_commands = <<>>
    /\ db = db_before
    /\ AllPaths(db) # {}
    /\ saves = 1
    /\ db_backup = file_before
    /\ db_backup # None
    /\ run_backup = None
    /\ "no_changes" \in messages

\* ---- an update for an account the ledger does not have
\* C36 (account not found): a call of update_account_usage that reports that
\* the account is not in the ledger returns the ledger it was given, with no
\* account added and no used_space, remaining_space or files changed, and
\* returns to its caller, who goes on; and no call ever adds an account to
\* those initialize_database made.
C36_AbsentAccountNoChange ==
    /\ [][("account_not_found" \in messages') =>
            /\ db' = db
            /\ pc' = "update"]_vars
    /\ [](pc = "update" =>
            [k \in 1..Len(db) |-> db[k].id]
                = [k \in 1..Len(db_before) |-> db_before[k].id])

\* C36 witness: a ledger with a recorded file was passed with an account id
\* it does not have; the call reported that and the ledger is as it was.
C36_Witness ==
    /\ pc = "update"
    /\ "account_not_found" \in messages
    /\ db = db_before
    /\ Len(db) = 2
    /\ AllPaths(db) # {}
    /\ \E k \in 1..Len(db) : db[k].used_space = Capacity

====
